---------------------------- MODULE Spec2Model ----------------------------
(***************************************************************************)
(* ptrn.py - photo rename.  A model of the pairing-and-rename algorithm:   *)
(* the classifier is_date_time, the selectors select_by_exts and           *)
(* filter_by_name, the resolvers rn_by_exif and rn_mov, the pair matcher   *)
(* rn_lphotos and the main program.                                        *)
(*                                                                         *)
(* Python strings are sequences of one-character strings.  A path is the   *)
(* file's basename: the program works in one directory, and the folder     *)
(* part that os.path.join adds and os.path.split removes is the same for   *)
(* every path.  The directory is on a case-sensitive file system and can   *)
(* be listed; no other process changes it while the program runs, and a    *)
(* file's metadata and whether os.rename may move it do not change.        *)
(***************************************************************************)
EXTENDS Integers, Sequences, FiniteSets, TLC

VARIABLES
    fs,          \* the directory: file name -> the file stored under that name
    exif,        \* each file's metadata, as exifread finds it
    renamable,   \* whether os.rename can move a file, once that has been observed
    platform,    \* os.rename onto an existing path: replaces (posix) or raises (nt)
    pc,          \* position of the main program
    run,         \* which run of the program this is
    limg_paths,  \* rn_lphotos: the live image candidates
    lmov_paths,  \* rn_lphotos: the live movie candidates
    mi,          \* rn_lphotos: index of the outer loop (lmov_path)
    ii,          \* rn_lphotos: index of the inner loop (limg_path)
    img_paths,   \* main program: the still candidates of the second pass
    si,          \* main program: index of the loop over img_paths
    out,         \* the lines printed so far in this run
    log,         \* history: every call of rn_by_exif and rn_mov
    string,      \* the classifier's argument
    verdict      \* the classifier's answer ("none" before the call)

vars == <<fs, exif, renamable, platform, pc, run, limg_paths, lmov_paths, mi, ii, img_paths, si, out, log, string, verdict>>

----------------------------------------------------------------------------
(* Python str operations *)

Digit == {"0", "1", "2", "3", "4", "5", "6", "7", "8", "9"}

NL == "\n"

Min(a, b) == IF a < b THEN a ELSE b

\* s[a:b] with 0-based, clamped Python bounds (0 <= a)
Slice(s, a, b) == SubSeq(s, a + 1, Min(b, Len(s)))

startswith(s, p) == Len(p) <= Len(s) /\ SubSeq(s, 1, Len(p)) = p

endswith(s, p) == Len(p) <= Len(s) /\ SubSeq(s, Len(s) - Len(p) + 1, Len(s)) = p

LowerChar(c) ==
    CASE c = "I" -> "i" [] c = "M" -> "m" [] c = "G" -> "g" [] c = "J" -> "j"
      [] c = "P" -> "p" [] c = "O" -> "o" [] c = "V" -> "v" [] c = "T" -> "t"
      [] c = "F" -> "f" [] OTHER -> c

lower(s) == [n \in 1..Len(s) |-> LowerChar(s[n])]

\* s.replace(old, new) for a one-character old and a new of length <= 1
RECURSIVE replace(_, _, _)
replace(s, old, new) ==
    IF s = <<>> THEN <<>>
    ELSE (IF Head(s) = old THEN new ELSE <<Head(s)>>) \o replace(Tail(s), old, new)

\* str(n) for n >= 0
DigitChar(d) ==
    CASE d = 0 -> "0" [] d = 1 -> "1" [] d = 2 -> "2" [] d = 3 -> "3" [] d = 4 -> "4"
      [] d = 5 -> "5" [] d = 6 -> "6" [] d = 7 -> "7" [] d = 8 -> "8" [] OTHER -> "9"

RECURSIVE str(_)
str(n) == IF n < 10 THEN <<DigitChar(n)>> ELSE str(n \div 10) \o <<DigitChar(n % 10)>>

\* s.rfind('.'), 1-based; 0 when s has no dot
rfindDot(s) ==
    LET dots == {n \in 1..Len(s) : s[n] = "."}
    IN  IF dots = {} THEN 0 ELSE CHOOSE n \in dots : \A m \in dots : m <= n

\* os.path.splitext on a basename: the extension starts at the last dot,
\* unless only dots come before it
splitext(p) ==
    LET dotIndex == rfindDot(p)
    IN  IF dotIndex > 0 /\ \E n \in 1..(dotIndex - 1) : p[n] # "."
        THEN <<SubSeq(p, 1, dotIndex - 1), SubSeq(p, dotIndex, Len(p))>>
        ELSE <<p, <<>> >>

----------------------------------------------------------------------------
(* is_date_time: re.match of the datetime pattern *)

\* (19[7-9][0-9]|20[0-9]{2}|9999)
YearRe(s) ==
    \/ s[1] = "1" /\ s[2] = "9" /\ s[3] \in {"7", "8", "9"} /\ s[4] \in Digit
    \/ s[1] = "2" /\ s[2] = "0" /\ s[3] \in Digit /\ s[4] \in Digit
    \/ s = <<"9", "9", "9", "9">>

\* (0[1-9]|1[0-2])
MonthRe(s) ==
    \/ s[1] = "0" /\ s[2] \in Digit \ {"0"}
    \/ s[1] = "1" /\ s[2] \in {"0", "1", "2"}

\* (0[1-9]|[12][0-9]|3[01])
DayRe(s) ==
    \/ s[1] = "0" /\ s[2] \in Digit \ {"0"}
    \/ s[1] \in {"1", "2"} /\ s[2] \in Digit
    \/ s[1] = "3" /\ s[2] \in {"0", "1"}

\* (0[0-9]|1[0-9]|2[0-3])
HourRe(s) ==
    \/ s[1] = "0" /\ s[2] \in Digit
    \/ s[1] = "1" /\ s[2] \in Digit
    \/ s[1] = "2" /\ s[2] \in {"0", "1", "2", "3"}

\* ([0-5][0-9])
SixtyRe(s) == s[1] \in {"0", "1", "2", "3", "4", "5"} /\ s[2] \in Digit

\* '$' at 0-based offset pos of s: the end of the string, or just before a
\* newline that ends the string
DollarRe(s, pos) == pos = Len(s) \/ (pos = Len(s) - 1 /\ s[Len(s)] = NL)

is_date_time(s) ==
    /\ Len(s) >= 15
    /\ YearRe(SubSeq(s, 1, 4))
    /\ MonthRe(SubSeq(s, 5, 6))
    /\ DayRe(SubSeq(s, 7, 8))
    /\ s[9] = "_"
    /\ HourRe(SubSeq(s, 10, 11))
    /\ SixtyRe(SubSeq(s, 12, 13))
    /\ SixtyRe(SubSeq(s, 14, 15))
    /\ DollarRe(s, 15)

----------------------------------------------------------------------------
(* Parameters of the main program and defaults of the functions *)

IMG_ == <<"I", "M", "G", "_">>

img_ == <<"i", "m", "g", "_">>

Img_ == <<"I", "m", "g", "_">>

\* f_heads of the main program
f_heads == <<IMG_, img_, Img_>>

\* img_exts of the main program
img_exts == << <<".", "j", "p", "g">>, <<".", "j", "p", "e", "g">>, <<".", "t", "i", "f">>, <<".", "t", "i", "f", "f">> >>

\* rn_lphotos: limg_ext = '.JPG'
limg_ext == <<".", "J", "P", "G">>

\* rn_lphotos: lmov_ext = '.MOV'
lmov_ext == <<".", "M", "O", "V">>

\* rn_lphotos: f_heads = 'IMG_', which filter_by_name turns into ('IMG_',)
lphotos_heads == <<IMG_>>

\* rn_by_exif: head = 'IMG_'
default_head == IMG_

\* Python's None; no path of the program is the empty string
None == <<>>

----------------------------------------------------------------------------
(* The file system, as the program sees it through os *)

\* os.path.exists
exists(f, p) == p \in DOMAIN f

\* the directory after the file at src has moved to dst
Move(f, src, dst) ==
    [p \in (DOMAIN f \ {src}) \cup {dst} |-> IF p = dst THEN f[src] ELSE f[p]]

\* whether os.rename may move file id: fixed for a file, observed at the first try
ObserveRenamable(rn, id) ==
    IF rn[id] = "?" THEN {[rn EXCEPT ![id] = "yes"], [rn EXCEPT ![id] = "no"]} ELSE {rn}

\* the platform's os.rename, observed the first time a target exists
ObservePlatform(pf) == IF pf = "?" THEN {"posix", "nt"} ELSE {pf}

\* os.rename(src, dst): the possible outcomes.  It raises (ok = FALSE) when
\* src does not exist, when the file cannot be moved, and on nt when dst
\* exists; on posix an existing dst is replaced.
os_rename(f, rn, pf, src, dst) ==
    IF ~exists(f, src)
    THEN {[fs |-> f, renamable |-> rn, platform |-> pf, ok |-> FALSE]}
    ELSE UNION {
        IF rn2[f[src]] = "no"
        THEN {[fs |-> f, renamable |-> rn2, platform |-> pf, ok |-> FALSE]}
        ELSE IF src = dst
        THEN {[fs |-> f, renamable |-> rn2, platform |-> pf, ok |-> TRUE]}
        ELSE IF exists(f, dst)
        THEN {[fs |-> IF pf2 = "posix" THEN Move(f, src, dst) ELSE f,
               renamable |-> rn2, platform |-> pf2, ok |-> (pf2 = "posix")]
              : pf2 \in ObservePlatform(pf)}
        ELSE {[fs |-> Move(f, src, dst), renamable |-> rn2, platform |-> pf, ok |-> TRUE]}
        : rn2 \in ObserveRenamable(rn, f[src])}

\* open(path, 'rb') and exifread.process_file succeed
CanRead(f, ex, path) == exists(f, path) /\ ex[f[path]].readable

----------------------------------------------------------------------------
(* select_by_exts and filter_by_name *)

\* select_by_exts on the listing os.listdir returned; f_exts is a tuple of
\* extensions (a single str extension is passed as a tuple of one)
select_by_exts(files, f_exts) ==
    LET exts == [n \in 1..Len(f_exts) |-> lower(f_exts[n])]
    IN  SelectSeq(files, LAMBDA file : \E n \in 1..Len(exts) : endswith(lower(file), exts[n]))

\* the test of filter_by_name's inner loop for one head
FitsPattern(f_base, f_head) ==
    LET len_head == Len(f_head)
        dtm_slice == Slice(f_base, len_head, len_head + 15)
    IN  startswith(f_base, f_head) /\ is_date_time(dtm_slice)

\* rename_tag of filter_by_name
rename_tag(path, heads) ==
    LET f_base == splitext(path)[1]
    IN  ~ \E n \in 1..Len(heads) : FitsPattern(f_base, heads[n])

filter_by_name(paths, heads) == SelectSeq(paths, LAMBDA path : rename_tag(path, heads))

----------------------------------------------------------------------------
(* rn_by_exif and rn_mov *)

\* str(tags[tag_date]).replace(':','').replace(' ', '_')
FormatDate(date) == replace(replace(date, ":", <<>>), " ", <<"_">>)

\* a resolver that checks the target once and takes the first suffix unchecked
FreeName_once(f, head, date_time, ext, new_name, index) ==
    IF exists(f, new_name) THEN head \o date_time \o <<"-">> \o str(index) \o ext ELSE new_name

\* the while loop of rn_by_exif: the first name that does not exist
RECURSIVE FreeName(_, _, _, _, _, _)
FreeName(f, head, date_time, ext, new_name, index) ==
    IF exists(f, new_name)
    THEN FreeName(f, head, date_time, ext, head \o date_time \o <<"-">> \o str(index) \o ext, index + 1)
    ELSE new_name

\* what a call leaves behind: the directory, what was observed, the value
\* returned, whether an exception escaped, the lines printed, and the call's
\* record for the history
Outcome(f, rn, pf, ret, crashed, printed, ev) ==
    [fs |-> f, renamable |-> rn, platform |-> pf, ret |-> ret, crashed |-> crashed, printed |-> printed, ev |-> ev]

Event(fn, src, file, dst, ok, existed) ==
    [fn |-> fn, src |-> src, file |-> file, dst |-> dst, ok |-> ok, existed |-> existed]

FileAt(f, path) == IF exists(f, path) THEN f[path] ELSE None

\* rn_by_exif(path, head): the possible outcomes.  When open or exifread
\* raises, the except clause prints and falls through to the test of tags,
\* which was never bound: the UnboundLocalError escapes the function.
rn_by_exif(f, rn, pf, ex, path, head) ==
    LET ext == splitext(path)[2]
    IN  IF ~CanRead(f, ex, path)
        THEN {Outcome(f, rn, pf, None, TRUE, <<[text |-> "Error: cannot access the image", path |-> path]>>,
                      Event("rn_by_exif", path, FileAt(f, path), None, FALSE, FALSE))}
        ELSE IF ex[f[path]].has_date
        THEN LET date_time == FormatDate(ex[f[path]].date)
                 new_path == FreeName(f, head, date_time, ext, head \o date_time \o ext, 1)
             IN  {IF r.ok
                  THEN Outcome(r.fs, r.renamable, r.platform, new_path, FALSE, <<>>,
                               Event("rn_by_exif", path, f[path], new_path, TRUE, exists(f, new_path)))
                  ELSE Outcome(r.fs, r.renamable, r.platform, None, FALSE,
                               <<[text |-> "Error: cannot rename", path |-> path]>>,
                               Event("rn_by_exif", path, f[path], new_path, FALSE, exists(f, new_path)))
                  : r \in os_rename(f, rn, pf, path, new_path)}
        ELSE {Outcome(f, rn, pf, None, FALSE, <<[text |-> "- Not enough Exif info. to rename", path |-> path]>>,
                      Event("rn_by_exif", path, f[path], None, FALSE, FALSE))}

\* rn_mov(lmov_path, limg_path): the possible outcomes
rn_mov(f, rn, pf, lmov_path, limg_path) ==
    LET mov_ext == splitext(lmov_path)[2]
        limg_base == splitext(limg_path)[1]
        new_lmov_path == limg_base \o mov_ext
    IN  {IF r.ok
         THEN Outcome(r.fs, r.renamable, r.platform, new_lmov_path, FALSE, <<>>,
                      Event("rn_mov", lmov_path, FileAt(f, lmov_path), new_lmov_path, TRUE,
                            exists(f, new_lmov_path) /\ new_lmov_path # lmov_path))
         ELSE Outcome(r.fs, r.renamable, r.platform, None, FALSE,
                      <<[text |-> "Error: cannot rename", path |-> lmov_path]>>,
                      Event("rn_mov", lmov_path, FileAt(f, lmov_path), new_lmov_path, FALSE,
                            exists(f, new_lmov_path) /\ new_lmov_path # lmov_path))
         : r \in os_rename(f, rn, pf, lmov_path, new_lmov_path)}

----------------------------------------------------------------------------
(* rn_lphotos and the main program *)

\* lmov_path[:-len_lmov_ext] and limg_path[:-len_limg_ext]
StripExt(path, ext) == SubSeq(path, 1, Len(path) - Len(ext))

\* a matcher that compares the heads of the two names only
BasesMatch_heads(lmov_path, limg_path) == SubSeq(lmov_path, 1, 4) = SubSeq(limg_path, 1, 4)

\* the test of rn_lphotos' inner loop
BasesMatch(lmov_path, limg_path) == StripExt(lmov_path, lmov_ext) = StripExt(limg_path, limg_ext)

\* the body of the inner loop for a matching pair: the image is renamed by
\* rn_by_exif with the default head, and the movie only when that returned
\* a path
RenamePair(f, rn, pf, ex, lmov_path, limg_path) ==
    UNION {
        IF r1.crashed \/ r1.ret = None
        THEN {[fs |-> r1.fs, renamable |-> r1.renamable, platform |-> r1.platform,
               crashed |-> r1.crashed, printed |-> r1.printed, evs |-> <<r1.ev>>]}
        ELSE {[fs |-> r2.fs, renamable |-> r2.renamable, platform |-> r2.platform,
               crashed |-> FALSE, printed |-> r1.printed \o r2.printed, evs |-> <<r1.ev, r2.ev>>]
              : r2 \in rn_mov(r1.fs, r1.renamable, r1.platform, lmov_path, r1.ret)}
        : r1 \in rn_by_exif(f, rn, pf, ex, limg_path, default_head)}

\* the orders in which the names of S can be listed
RECURSIVE Orders(_)
Orders(S) == IF S = {} THEN {<<>>} ELSE UNION {{<<x>> \o l : l \in Orders(S \ {x})} : x \in S}

\* os.listdir: the names of the directory, in any order
listdir(f) == Orders(DOMAIN f)

\* the position of rn_lphotos' loops after the iteration at (m, i)
NextPair(m, i, nimg) == IF i < nimg THEN <<m, i + 1>> ELSE <<m + 1, 1>>

Stamp(r, phase, evs) == [n \in 1..Len(evs) |-> [run |-> r, phase |-> phase, ev |-> evs[n]]]

\* rn_lphotos up to its loops: both candidate lists are selected and filtered
ScanPairs ==
    /\ pc = "Start"
    /\ \E imgs \in {filter_by_name(select_by_exts(l, <<limg_ext>>), lphotos_heads) : l \in listdir(fs)},
          movs \in {filter_by_name(select_by_exts(l, <<lmov_ext>>), lphotos_heads) : l \in listdir(fs)} :
             /\ limg_paths' = imgs
             /\ lmov_paths' = movs
             /\ mi' = IF imgs = <<>> THEN Len(movs) + 1 ELSE 1
             /\ ii' = 1
             /\ out' = IF movs = <<>> THEN Append(out, [text |-> "No live photo is found.", path |-> None]) ELSE out
    /\ pc' = "RenamingPairs"
    /\ UNCHANGED <<fs, exif, renamable, platform, run, img_paths, si, log, string, verdict>>

\* one iteration of the inner loop whose bases differ
PairSkip ==
    /\ pc = "RenamingPairs"
    /\ mi <= Len(lmov_paths)
    /\ ~BasesMatch(lmov_paths[mi], limg_paths[ii])
    /\ mi' = NextPair(mi, ii, Len(limg_paths))[1]
    /\ ii' = NextPair(mi, ii, Len(limg_paths))[2]
    /\ UNCHANGED <<fs, exif, renamable, platform, pc, run, limg_paths, lmov_paths, img_paths, si, out, log, string, verdict>>

\* one iteration of the inner loop whose bases are equal
PairRename ==
    /\ pc = "RenamingPairs"
    /\ mi <= Len(lmov_paths)
    /\ BasesMatch(lmov_paths[mi], limg_paths[ii])
    /\ \E r \in RenamePair(fs, renamable, platform, exif, lmov_paths[mi], limg_paths[ii]) :
         /\ fs' = r.fs
         /\ renamable' = r.renamable
         /\ platform' = r.platform
         /\ out' = Append(out, [text |-> "Renaming live photo files: ", path |-> limg_paths[ii]]) \o r.printed
         /\ log' = log \o Stamp(run, "RenamingPairs", r.evs)
         /\ pc' = IF r.crashed THEN "Crashed" ELSE pc
    /\ mi' = NextPair(mi, ii, Len(limg_paths))[1]
    /\ ii' = NextPair(mi, ii, Len(limg_paths))[2]
    /\ UNCHANGED <<exif, run, limg_paths, lmov_paths, img_paths, si, string, verdict>>

\* the main program after rn_lphotos: the stills are selected and filtered
ScanStills ==
    /\ pc = "RenamingPairs"
    /\ mi > Len(lmov_paths)
    /\ img_paths' \in {filter_by_name(select_by_exts(l, img_exts), f_heads) : l \in listdir(fs)}
    /\ si' = 1
    /\ pc' = "RenamingStills"
    /\ UNCHANGED <<fs, exif, renamable, platform, run, limg_paths, lmov_paths, mi, ii, out, log, string, verdict>>

\* one iteration of the main program's loop
StillRename ==
    /\ pc = "RenamingStills"
    /\ si <= Len(img_paths)
    /\ \E r \in rn_by_exif(fs, renamable, platform, exif, img_paths[si], IMG_) :
         /\ fs' = r.fs
         /\ renamable' = r.renamable
         /\ platform' = r.platform
         /\ out' = Append(out, [text |-> "Renaming: ", path |-> img_paths[si]]) \o r.printed
         /\ log' = log \o Stamp(run, "RenamingStills", <<r.ev>>)
         /\ pc' = IF r.crashed THEN "Crashed" ELSE pc
    /\ si' = si + 1
    /\ UNCHANGED <<exif, run, limg_paths, lmov_paths, mi, ii, img_paths, string, verdict>>

\* a summary printed after the loop whether or not it ran
Summary_always(paths) == "Done."

\* the summary the main program ends with
Summary(paths) == IF paths # <<>> THEN "Done." ELSE "No file was further renamed."

Finish ==
    /\ pc = "RenamingStills"
    /\ si > Len(img_paths)
    /\ out' = Append(out, [text |-> Summary(img_paths), path |-> None])
    /\ pc' = "Done"
    /\ UNCHANGED <<fs, exif, renamable, platform, run, limg_paths, lmov_paths, mi, ii, img_paths, si, log, string, verdict>>

\* the program is started a second time, on the directory the first run left
Rerun ==
    /\ pc = "Done"
    /\ run = 1
    /\ pc' = "Start"
    /\ run' = run + 1
    /\ limg_paths' = <<>>
    /\ lmov_paths' = <<>>
    /\ img_paths' = <<>>
    /\ mi' = 1
    /\ ii' = 1
    /\ si' = 1
    /\ out' = <<>>
    /\ UNCHANGED <<fs, exif, renamable, platform, log, string, verdict>>

----------------------------------------------------------------------------
(* The directories the program is started on *)

\* EXIF DateTimeOriginal values: one the classifier's pattern covers once
\* formatted, and the unset clock of a camera, which it does not
Tag1 == <<"2", "0", "2", "3", ":", "0", "4", ":", "0", "6", " ", "1", "7", ":", "5", "0", ":", "4", "7">>

Tag0 == <<"0", "0", "0", "0", ":", "0", "0", ":", "0", "0", " ", "0", "0", ":", "0", "0", ":", "0", "0">>

Unreadable == [readable |-> FALSE, has_date |-> FALSE, date |-> <<>>]

NoDate == [readable |-> TRUE, has_date |-> FALSE, date |-> <<>>]

Dated(tag) == [readable |-> TRUE, has_date |-> TRUE, date |-> tag]

tif_ext == <<".", "t", "i", "f">>

\* stills as the phone names them
RawImages == {IMG_ \o <<"1">> \o limg_ext, IMG_ \o <<"2">> \o limg_ext, IMG_ \o <<"3">> \o limg_ext, IMG_ \o <<"4">> \o tif_ext}

\* their movies
RawClips == {IMG_ \o <<"1">> \o lmov_ext, IMG_ \o <<"2">> \o lmov_ext}

\* files an earlier run, or the user, named by the pattern
NamedImages == {IMG_ \o FormatDate(Tag1) \o limg_ext, img_ \o FormatDate(Tag1) \o limg_ext}

NamedClips == {IMG_ \o FormatDate(Tag1) \o lmov_ext, img_ \o FormatDate(Tag1) \o lmov_ext}

FileNames == RawImages \cup RawClips \cup NamedImages \cup NamedClips

ExifOf(name) ==
    IF name \in RawImages THEN {Unreadable, NoDate, Dated(Tag1), Dated(Tag0)}
    ELSE IF name \in NamedImages THEN {Dated(Tag1)}
    ELSE {NoDate}

MaxFiles == 3

Init ==
    /\ \E D \in SUBSET FileNames :
         /\ Cardinality(D) <= MaxFiles
         /\ fs = [p \in D |-> p]
         /\ exif \in {e \in [D -> UNION {ExifOf(p) : p \in D}] : \A p \in D : e[p] \in ExifOf(p)}
         /\ renamable = [p \in D |-> "?"]
    /\ platform = "?"
    /\ pc = "Start"
    /\ run = 1
    /\ limg_paths = <<>>
    /\ lmov_paths = <<>>
    /\ img_paths = <<>>
    /\ mi = 1
    /\ ii = 1
    /\ si = 1
    /\ out = <<>>
    /\ log = <<>>
    /\ string = <<>>
    /\ verdict = "none"

Next ==
    \/ ScanPairs
    \/ PairSkip
    \/ PairRename
    \/ ScanStills
    \/ StillRename
    \/ Finish
    \/ Rerun

Spec == Init /\ [][Next]_vars

----------------------------------------------------------------------------
(* The classifier on its own: is_date_time applied to one string *)

Templates ==
    { <<"2", "0", "2", "3", "0", "4", "0", "6", "_", "1", "7", "5", "0", "4", "7">>,
      <<"1", "9", "7", "0", "0", "1", "0", "1", "_", "0", "0", "0", "0", "0", "0">>,
      <<"2", "0", "9", "9", "1", "2", "3", "1", "_", "2", "3", "5", "9", "5", "9">>,
      <<"9", "9", "9", "9", "1", "0", "2", "9", "_", "1", "9", "3", "0", "3", "0">> }

Alphabet == Digit \cup {"_", "-", ":", "a", NL}

PadChars == {NL, "0", "_"}

\* how many characters are put after a template
MaxPad == 2

\* t with the character at position n replaced by c
Substitute(t, n, c) == [t EXCEPT ![n] = c]

Pads == UNION {[1..k -> PadChars] : k \in 1..MaxPad}

ClassifierInputs ==
    Templates
    \cup {Substitute(t, n, c) : t \in Templates, n \in 1..15, c \in Alphabet}
    \cup {SubSeq(t, 1, n) : t \in Templates, n \in 0..14}
    \cup {t \o pad : t \in Templates, pad \in Pads}
    \cup {<<c>> \o t : t \in Templates, c \in PadChars}

InitClassifier ==
    /\ string \in ClassifierInputs
    /\ verdict = "none"
    /\ fs = <<>>
    /\ exif = <<>>
    /\ renamable = <<>>
    /\ platform = "?"
    /\ pc = "Classifier"
    /\ run = 1
    /\ limg_paths = <<>>
    /\ lmov_paths = <<>>
    /\ img_paths = <<>>
    /\ mi = 1
    /\ ii = 1
    /\ si = 1
    /\ out = <<>>
    /\ log = <<>>

\* the call is_date_time(string)
Classify ==
    /\ pc = "Classifier"
    /\ verdict = "none"
    /\ verdict' = IF is_date_time(string) THEN "True" ELSE "False"
    /\ UNCHANGED <<fs, exif, renamable, platform, pc, run, limg_paths, lmov_paths, mi, ii, img_paths, si, out, log, string>>

NextClassifier == Classify

SpecClassifier == InitClassifier /\ [][NextClassifier]_vars

----------------------------------------------------------------------------
(* C6 *)

DigitVal(c) ==
    CASE c = "0" -> 0 [] c = "1" -> 1 [] c = "2" -> 2 [] c = "3" -> 3 [] c = "4" -> 4
      [] c = "5" -> 5 [] c = "6" -> 6 [] c = "7" -> 7 [] c = "8" -> 8 [] OTHER -> 9

RECURSIVE Num(_)
Num(s) == IF s = <<>> THEN 0 ELSE 10 * Num(SubSeq(s, 1, Len(s) - 1)) + DigitVal(s[Len(s)])

AllDigits(s) == \A n \in 1..Len(s) : s[n] \in Digit

\* the shape YYYYMMDD_HHMMSS with every field in its range
IsStampShape(s) ==
    /\ Len(s) = 15
    /\ AllDigits(SubSeq(s, 1, 8))
    /\ s[9] = "_"
    /\ AllDigits(SubSeq(s, 10, 15))
    /\ (Num(SubSeq(s, 1, 4)) \in 1970..2099 \/ Num(SubSeq(s, 1, 4)) = 9999)
    /\ Num(SubSeq(s, 5, 6)) \in 1..12
    /\ Num(SubSeq(s, 7, 8)) \in 1..31
    /\ Num(SubSeq(s, 10, 11)) \in 0..23
    /\ Num(SubSeq(s, 12, 13)) \in 0..59
    /\ Num(SubSeq(s, 14, 15)) \in 0..59

\* C6: is_date_time answers True exactly for the strings of 15 characters
\* of the shape YYYYMMDD_HHMMSS with the year in 1970..2099 or 9999, the
\* month in 01..12, the day in 01..31, the hour in 00..23 and minutes and
\* seconds in 00..59, and False for every other string of any length.
C6_ClassifierExact == verdict # "none" => (verdict = "True" <=> IsStampShape(string))

----------------------------------------------------------------------------
(* Vocabulary of the claims about a run *)

\* the files the directory held when the first run started
Files == DOMAIN exif

\* the names under which file q is stored now
NamesOf(q) == {p \in DOMAIN fs : fs[p] = q}

Calls == 1..Len(log)

IsRename(n) == log[n].ev.ok

IsMovie(p) == lower(splitext(p)[2]) = lower(lmov_ext)

IsLiveImage(p) == lower(splitext(p)[2]) = lower(limg_ext)

\* the base name starts with an accepted head followed by a datetime
AlreadyNamed(p) == \E n \in 1..Len(f_heads) : FitsPattern(splitext(p)[1], f_heads[n])

HasDate(q) == exif[q].readable /\ exif[q].has_date

Over == pc \in {"Done", "Crashed"}

Printed(text, path) == \E n \in 1..Len(out) : out[n] = [text |-> text, path |-> path]

LastLine == out[Len(out)].text

----------------------------------------------------------------------------
(* C1 *)

\* C1: once a full run has completed, a second full run on the directory it
\* left renames nothing.
C1_SecondRunRenamesNothing == \A n \in Calls : log[n].run = 2 => ~IsRename(n)

----------------------------------------------------------------------------
(* C2 *)

\* the files dated T on which rn_by_exif has been called
Group(T) ==
    {q \in Files : /\ HasDate(q)
                   /\ FormatDate(exif[q].date) = T
                   /\ \E n \in Calls : log[n].ev.fn = "rn_by_exif" /\ log[n].ev.file = q}

\* the calls of rn_by_exif on file q
CallsOn(q) == {n \in Calls : log[n].ev.fn = "rn_by_exif" /\ log[n].ev.file = q}

\* no file was named head+T... before the run, and rn_by_exif has been
\* applied to each file of the group G once, its rename succeeding
GroupIsFresh(T, G) ==
    /\ \A p \in Files : ~startswith(p, IMG_ \o T)
    /\ \A q \in G : Cardinality(CallsOn(q)) = 1 /\ \A n \in CallsOn(q) : IsRename(n)

Suffixes(N) == {<<>>} \cup {<<"-">> \o str(k) : k \in 1..(N - 1)}

Stamps == {FormatDate(Tag1), FormatDate(Tag0)}

\* the names under which the files of G are stored now
NamesOfGroup(G) == {p \in DOMAIN fs : fs[p] \in G}

\* C2 as stated: the N files dated T end up with the base names head+T,
\* head+T-1, ..., head+T-(N-1), one each, in whatever order they were
\* processed.
C2_AsStated ==
    run = 1 =>
        \A T \in Stamps :
            LET G == Group(T)
                bases == {splitext(p)[1] : p \in NamesOfGroup(G)}
            IN  (G # {} /\ GroupIsFresh(T, G)) =>
                    /\ bases = {IMG_ \o T \o x : x \in Suffixes(Cardinality(G))}
                    /\ Cardinality(bases) = Cardinality(G)

\* C2, amended: the N files dated T that share one extension end up with the
\* names head+T+ext, head+T-1+ext, ..., head+T-(N-1)+ext, in whatever order
\* they were processed.
C2_SameExtension ==
    run = 1 =>
        \A T \in Stamps :
            LET G == Group(T)
            IN  (G # {} /\ GroupIsFresh(T, G)) =>
                    \A e \in {splitext(q)[2] : q \in G} :
                        LET Ge == {q \in G : splitext(q)[2] = e}
                        IN  NamesOfGroup(Ge) = {IMG_ \o T \o x \o e : x \in Suffixes(Cardinality(Ge))}

\* three files of one extension and one datetime have all been renamed
C2_Witness ==
    /\ run = 1
    /\ \E T \in Stamps :
          LET G == Group(T)
          IN  /\ GroupIsFresh(T, G)
              /\ \E e \in {splitext(q)[2] : q \in G} : Cardinality({q \in G : splitext(q)[2] = e}) = 3

----------------------------------------------------------------------------
(* C3 *)

\* a live photo: an image and a movie with one base, neither named by the
\* pattern yet, the image dated, and neither refused by os.rename
LivePairs ==
    {pr \in Files \X Files :
        /\ IsLiveImage(pr[1]) /\ IsMovie(pr[2])
        /\ splitext(pr[1])[1] = splitext(pr[2])[1]
        /\ ~AlreadyNamed(pr[1]) /\ ~AlreadyNamed(pr[2])
        /\ HasDate(pr[1])
        /\ renamable[pr[1]] # "no" /\ renamable[pr[2]] # "no"}

\* C3: at the end of a run, the image and the movie of every live photo
\* carry the same base name, derived from the image's datetime, and differ
\* by their extension only.
C3_PairingSymmetry ==
    pc = "Done" =>
        \A pr \in LivePairs :
            \E a \in NamesOf(pr[1]), b \in NamesOf(pr[2]) :
                /\ splitext(a)[1] = splitext(b)[1]
                /\ startswith(a, IMG_ \o FormatDate(exif[pr[1]].date))

----------------------------------------------------------------------------
(* C4 *)

----------------------------------------------------------------------------
(* C5 *)

\* C5: when the image cannot be read, rn_by_exif reports it, leaves the file
\* where it is and returns, and the run goes on.
C5_AccessErrorContained ==
    \A n \in Calls :
        (log[n].ev.fn = "rn_by_exif" /\ log[n].ev.file # None /\ ~exif[log[n].ev.file].readable) =>
            /\ NamesOf(log[n].ev.file) = {log[n].ev.src}
            /\ pc # "Crashed"

----------------------------------------------------------------------------
(* C7 *)

\* the stills the second pass accepts that are not named by the pattern yet
StillCandidates ==
    {q \in Files : ~IsMovie(q) /\ ~AlreadyNamed(q)}

\* C7: once the run is over, an image without a datetime that rn_by_exif
\* was called on is still where it was and has been reported, the run has
\* not crashed, and every other candidate that has a datetime and that
\* os.rename does not refuse has been renamed.
C7_MissingMetadata ==
    (run = 1 /\ Over) =>
        \A n \in Calls :
            (log[n].ev.fn = "rn_by_exif" /\ log[n].ev.file # None
              /\ exif[log[n].ev.file].readable /\ ~exif[log[n].ev.file].has_date) =>
                /\ NamesOf(log[n].ev.file) = {log[n].ev.file}
                /\ Printed("- Not enough Exif info. to rename", log[n].ev.src)
                /\ pc # "Crashed"
                /\ \A q \in StillCandidates :
                      (HasDate(q) /\ renamable[q] # "no") =>
                          \E m \in Calls : IsRename(m) /\ log[m].ev.file = q

----------------------------------------------------------------------------
(* C8 *)

----------------------------------------------------------------------------
(* C9 *)

RenamedInSecondPass == \E n \in Calls : log[n].run = run /\ log[n].phase = "RenamingStills" /\ IsRename(n)

CalledInSecondPass == \E n \in Calls : log[n].run = run /\ log[n].phase = "RenamingStills"

\* C9 as stated: the run ends with "Done." exactly when the second pass
\* renamed at least one still, and with "No file was further renamed."
\* otherwise.
C9_AsStated ==
    pc = "Done" =>
        /\ LastLine = "Done." <=> RenamedInSecondPass
        /\ LastLine = "No file was further renamed." <=> ~RenamedInSecondPass

\* C9, amended: the run ends with "Done." exactly when the second pass had
\* at least one candidate, whether or not any of them was renamed, and with
\* "No file was further renamed." exactly when it had none.
C9_DoneIffCandidates ==
    pc = "Done" =>
        /\ LastLine = "Done." <=> CalledInSecondPass
        /\ LastLine = "No file was further renamed." <=> ~CalledInSecondPass

\* a run has ended with "Done." although no candidate of the second pass
\* was renamed
C9_Witness == pc = "Done" /\ LastLine = "Done." /\ CalledInSecondPass /\ ~RenamedInSecondPass

----------------------------------------------------------------------------
(* C10 *)

\* C10: no rename targets a path at which a file exists, so the directory
\* holds as many files as at the start.
C10_NoOverwrite ==
    /\ \A n \in Calls : IsRename(n) => ~log[n].ev.existed
    /\ Cardinality(DOMAIN fs) = Cardinality(Files)

============================================================================
